---------------------------- MODULE Spec2Model ----------------------------
(***************************************************************************)
(* Two sample programs of the repository:                                  *)
(*   src/set_acl.cpp          SetAclForBucket / SetAclForObject            *)
(*                            (fetch an ACL, normalise, append a grant,    *)
(*                            write it back, bucket path re-fetches)       *)
(*   src/put_object_async.cpp put_s3_object_async + completion callback    *)
(*                            + the waiting main thread                    *)
(* The S3 client is an external collaborator: a store that keeps one       *)
(* access control policy per target and answers every request with a      *)
(* success or an error outcome.                                            *)
(***************************************************************************)
EXTENDS Integers, Sequences, FiniteSets, TLC

VARIABLES
    \* ---- set_acl.cpp ----
    store,          \* the store's policy per target (what Get*Acl returns)
    pc,             \* per invocation: position in SetAclFor{Bucket,Object}
    kind,           \* per invocation: "bucket" (SetAclForBucket) or "object"
    grantee_id,     \* per invocation: argument grantee_id
    permission,     \* per invocation: argument permission (a string)
    result,         \* per invocation: get_outcome.GetResult()
    acp,            \* per invocation: the policy of put_request
    calls,          \* per invocation: the client operations issued and their outcomes
    out,            \* per invocation: the lines written to std::cout
    \* ---- put_object_async.cpp ----
    main_pc,        \* main thread: position in main / put_s3_object_async
    cb_pc,          \* callback thread: position in put_object_async_finished
    upload_mutex,   \* owner of upload_mutex: "free", "main" or "cb"
    upload_finished,\* the global flag
    notified,       \* upload_variable: the blocked waiter has been notified
    file_present,   \* whether stat(file_name) succeeds
    object_name,    \* argument s3_object_name
    uuid,           \* context->GetUUID()
    submitted,      \* requests handed to PutObjectAsync, in order
    outcome,        \* the PutObjectOutcome given to the callback
    put_ret,        \* return value of put_s3_object_async (FALSE before the call)
    s3_client,      \* lifetime of the local s3_client
    flag_writes,    \* number of executions of line 76
    notifies,       \* number of executions of line 78
    console         \* std::cout of the upload program: the writes made to it, in order

aclVars == <<store, pc, kind, grantee_id, permission, result, acp, calls, out>>
upVars  == <<main_pc, cb_pc, upload_mutex, upload_finished, notified,
             file_present, object_name, uuid, submitted, outcome, put_ret,
             s3_client, flag_writes, notifies, console>>
vars    == <<aclVars, upVars>>

---------------------------------------------------------------------------
\* Bounds of the model
NumInvocations == 2     \* concurrent applyGrant invocations
MaxInitGrants  == 2     \* grants in a target's policy before any invocation

Invocations == 1..NumInvocations

---------------------------------------------------------------------------
\* Aws::S3::Model::Permission, in the order of the switch of set_acl.cpp
Permission_NOT_SET      == 0
Permission_FULL_CONTROL == 1
Permission_WRITE        == 2
Permission_WRITE_ACP    == 3
Permission_READ         == 4
Permission_READ_ACP     == 5

\* A string field that has not been set
Unset == "<unset>"

Type_CanonicalUser == "CanonicalUser"
Type_Group         == "Group"
Type_Email         == "AmazonCustomerByEmail"

\* Aws::S3::Model::Grantee, default constructed
NewGrantee ==
    [id |-> Unset, displayName |-> Unset, emailAddress |-> Unset,
     uri |-> Unset, type |-> Unset]

\* Aws::S3::Model::Grant, default constructed
NewGrant == [grantee |-> NewGrantee, permission |-> Permission_NOT_SET]

\* Mutant of GetPermission: the results of "READ" and "READ_ACP" are exchanged
GetPermissionSwapped(access) ==
    IF access = "FULL_CONTROL" THEN Permission_FULL_CONTROL
    ELSE IF access = "WRITE" THEN Permission_WRITE
    ELSE IF access = "READ" THEN Permission_READ_ACP
    ELSE IF access = "WRITE_ACP" THEN Permission_WRITE_ACP
    ELSE IF access = "READ_ACP" THEN Permission_READ
    ELSE Permission_NOT_SET

\* GetPermission (set_acl.cpp:38-51): exact string comparisons, in order
GetPermission(access) ==
    IF access = "FULL_CONTROL" THEN Permission_FULL_CONTROL
    ELSE IF access = "WRITE" THEN Permission_WRITE
    ELSE IF access = "READ" THEN Permission_READ
    ELSE IF access = "WRITE_ACP" THEN Permission_WRITE_ACP
    ELSE IF access = "READ_ACP" THEN Permission_READ_ACP
    ELSE Permission_NOT_SET

\* The switch that prints a permission (set_acl.cpp:158-181)
PermissionLine(perm) ==
    CASE perm = Permission_NOT_SET      -> "NOT_SET"
      [] perm = Permission_FULL_CONTROL -> "FULL_CONTROL"
      [] perm = Permission_WRITE        -> "WRITE"
      [] perm = Permission_WRITE_ACP    -> "WRITE_ACP"
      [] perm = Permission_READ         -> "READ"
      [] perm = Permission_READ_ACP     -> "READ_ACP"
      [] OTHER                          -> "UNKNOWN VALUE"

\* Mutant of UpdatedGrant: the copy keeps the grantee's type (no SetType)
UpdatedGrantKeepsType(acp_grant) ==
    LET g0 == [NewGrant EXCEPT !.permission = acp_grant.permission]
        e0 == acp_grant.grantee
    IN  [g0 EXCEPT !.grantee = e0]

\* One iteration of the copy loop (set_acl.cpp:84-104, 218-238)
UpdatedGrant(acp_grant) ==
    LET g0 == [NewGrant EXCEPT !.permission = acp_grant.permission]
        e0 == acp_grant.grantee
        e1 == [e0 EXCEPT !.type = Type_CanonicalUser]
    IN  [g0 EXCEPT !.grantee = e1]

\* The whole copy loop: updated_grants after the for statement
RECURSIVE UpdatedGrants(_)
UpdatedGrants(grants) ==
    IF grants = << >> THEN << >>
    ELSE <<UpdatedGrant(Head(grants))>> \o UpdatedGrants(Tail(grants))

\* "Add new grant" (set_acl.cpp:106-113, 240-247)
AddedGrant(gid, perm) ==
    LET e0 == [NewGrantee EXCEPT !.id = gid]
        e1 == [e0 EXCEPT !.type = Type_CanonicalUser]
        g0 == [NewGrant EXCEPT !.grantee = e1]
    IN  [g0 EXCEPT !.permission = GetPermission(perm)]

\* Mutant of BucketAcp: the assignment of updated_grants at line 119 is
\* missing, the policy keeps the grants copied at line 80
BucketAcpKeepsInitialCopy(res, gid, perm) ==
    LET a0 == [owner |-> res.owner, grants |-> << >>]
    IN  [a0 EXCEPT !.grants = res.grants]

\* Mutant of BucketAcp: the new grant is appended only when no equal grant
\* is already in the list
BucketAcpDedup(res, gid, perm) ==
    LET a0 == [owner |-> res.owner, grants |-> res.grants]
        copied == UpdatedGrants(res.grants)
        present == \E i \in 1..Len(copied) : copied[i] = AddedGrant(gid, perm)
    IN  [a0 EXCEPT !.grants = IF present THEN copied
                              ELSE Append(copied, AddedGrant(gid, perm))]

\* Mutant of BucketAcp: the owner is not copied (no SetOwner)
BucketAcpNoOwner(res, gid, perm) ==
    LET a0 == [owner |-> [id |-> Unset, displayName |-> Unset], grants |-> << >>]
        a1 == [a0 EXCEPT !.grants = res.grants]
        updated_grants == Append(UpdatedGrants(res.grants), AddedGrant(gid, perm))
    IN  [a1 EXCEPT !.grants = updated_grants]

\* The policy SetAclForBucket puts (set_acl.cpp:77-119)
BucketAcp(res, gid, perm) ==
    LET a0 == [owner |-> res.owner, grants |-> << >>]
        a1 == [a0 EXCEPT !.grants = res.grants]                 \* line 80
        updated_grants == Append(UpdatedGrants(res.grants), AddedGrant(gid, perm))
    IN  [a1 EXCEPT !.grants = updated_grants]                   \* line 119

\* Mutant of ObjectAcp: the fetched grants are taken over as they are
ObjectAcpVerbatimCopy(res, gid, perm) ==
    LET a0 == [owner |-> res.owner, grants |-> << >>]
    IN  [a0 EXCEPT !.grants = Append(res.grants, AddedGrant(gid, perm))]

\* The policy SetAclForObject puts (set_acl.cpp:211-253)
ObjectAcp(res, gid, perm) ==
    LET a0 == [owner |-> res.owner, grants |-> << >>]
        updated_grants == Append(UpdatedGrants(res.grants), AddedGrant(gid, perm))
    IN  [a0 EXCEPT !.grants = updated_grants]                   \* line 253

---------------------------------------------------------------------------
\* Inputs

Kinds == {"bucket", "object"}

\* grantee_id arguments
GranteeIds == {"U2", "U3"}

\* permission arguments: the five known names and some others
KnownPermissionNames == {"FULL_CONTROL", "WRITE", "READ", "WRITE_ACP", "READ_ACP"}
PermissionNames == KnownPermissionNames \cup {"", "read", "bogus"}

\* permission arguments of the concurrent invocations
RacePermissionNames == {"WRITE"}

\* Grants a policy may hold before any invocation
SampleGrants ==
    { [grantee |-> [id |-> "U1", displayName |-> "alice", emailAddress |-> Unset,
                    uri |-> Unset, type |-> Type_CanonicalUser],
       permission |-> Permission_FULL_CONTROL],
      [grantee |-> [id |-> Unset, displayName |-> Unset, emailAddress |-> Unset,
                    uri |-> "AllUsers", type |-> Type_Group],
       permission |-> Permission_READ],
      [grantee |-> [id |-> Unset, displayName |-> Unset, emailAddress |-> "bob@x",
                    uri |-> Unset, type |-> Type_Email],
       permission |-> Permission_WRITE] }

InitialGrants == UNION { [1..n -> SampleGrants] : n \in 0..MaxInitGrants }

OwnerOf(target) ==
    IF target = "bucket" THEN [id |-> "O1", displayName |-> "bucket-owner"]
    ELSE [id |-> "O2", displayName |-> "object-owner"]

NoPolicy == [owner |-> [id |-> Unset, displayName |-> Unset], grants |-> << >>]

---------------------------------------------------------------------------
\* set_acl.cpp: one invocation of SetAclForBucket or SetAclForObject per
\* element of Invocations, running concurrently against the same store.

Target(p) == kind[p]

GetOp(k) == IF k = "bucket" THEN "GetBucketAcl" ELSE "GetObjectAcl"
PutOp(k) == IF k = "bucket" THEN "PutBucketAcl" ELSE "PutObjectAcl"

\* Values of the upload program's variables while set_acl runs
UploadIdle ==
    /\ main_pc = "off" /\ cb_pc = "off"
    /\ upload_mutex = "free" /\ upload_finished = FALSE /\ notified = FALSE
    /\ file_present = FALSE /\ object_name = Unset /\ uuid = Unset
    /\ submitted = << >> /\ outcome = Unset /\ put_ret = FALSE
    /\ s3_client = "none" /\ flag_writes = 0 /\ notifies = 0
    /\ console = << >>

Init ==
    /\ \E g \in InitialGrants :
          store = [t \in Kinds |-> [owner |-> OwnerOf(t), grants |-> g]]
    /\ pc = [p \in Invocations |-> "idle"]
    /\ kind = [p \in Invocations |-> "bucket"]
    /\ grantee_id = [p \in Invocations |-> Unset]
    /\ permission = [p \in Invocations |-> Unset]
    /\ result = [p \in Invocations |-> NoPolicy]
    /\ acp = [p \in Invocations |-> NoPolicy]
    /\ calls = [p \in Invocations |-> << >>]
    /\ out = [p \in Invocations |-> << >>]
    /\ UploadIdle

\* main calls SetAclForBucket / SetAclForObject (set_acl.cpp:288-289)
Call(p, k, gid, perm) ==
    /\ pc[p] = "idle"
    /\ pc' = [pc EXCEPT ![p] = "get"]
    /\ kind' = [kind EXCEPT ![p] = k]
    /\ grantee_id' = [grantee_id EXCEPT ![p] = gid]
    /\ permission' = [permission EXCEPT ![p] = perm]
    /\ UNCHANGED <<upVars, store, result, acp, calls, out>>

\* Mutant of GetSucceeds: an unrecognized permission name is rejected with
\* an error line and the function returns
GetSucceedsRejectsUnknown(p) ==
    /\ pc[p] = "get"
    /\ calls' = [calls EXCEPT ![p] = Append(@, [op |-> GetOp(kind[p]), ok |-> TRUE])]
    /\ result' = [result EXCEPT ![p] = store[Target(p)]]
    /\ IF GetPermission(permission[p]) = Permission_NOT_SET
       THEN /\ out' = [out EXCEPT ![p] = Append(@, "Unrecognized permission")]
            /\ pc' = [pc EXCEPT ![p] = "returned"]
            /\ acp' = acp
       ELSE /\ acp' = [acp EXCEPT ![p] =
                        IF kind[p] = "bucket"
                        THEN BucketAcp(store[Target(p)], grantee_id[p], permission[p])
                        ELSE ObjectAcp(store[Target(p)], grantee_id[p], permission[p])]
            /\ pc' = [pc EXCEPT ![p] = "put"]
            /\ out' = out
    /\ UNCHANGED <<upVars, store, kind, grantee_id, permission>>

\* Get*Acl succeeds; the new policy is built (set_acl.cpp:64-124, 198-259)
GetSucceeds(p) ==
    /\ pc[p] = "get"
    /\ calls' = [calls EXCEPT ![p] = Append(@, [op |-> GetOp(kind[p]), ok |-> TRUE])]
    /\ result' = [result EXCEPT ![p] = store[Target(p)]]
    /\ acp' = [acp EXCEPT ![p] =
                 IF kind[p] = "bucket"
                 THEN BucketAcp(store[Target(p)], grantee_id[p], permission[p])
                 ELSE ObjectAcp(store[Target(p)], grantee_id[p], permission[p])]
    /\ pc' = [pc EXCEPT ![p] = "put"]
    /\ UNCHANGED <<upVars, store, kind, grantee_id, permission, out>>

\* Mutant of GetFails: the error line is written but the function goes on
GetFailsFallsThrough(p) ==
    /\ pc[p] = "get"
    /\ calls' = [calls EXCEPT ![p] = Append(@, [op |-> GetOp(kind[p]), ok |-> FALSE])]
    /\ out' = [out EXCEPT ![p] = Append(@, "Original " \o GetOp(kind[p]) \o " error")]
    /\ acp' = [acp EXCEPT ![p] =
                 IF kind[p] = "bucket"
                 THEN BucketAcp(NoPolicy, grantee_id[p], permission[p])
                 ELSE ObjectAcp(NoPolicy, grantee_id[p], permission[p])]
    /\ pc' = [pc EXCEPT ![p] = "put"]
    /\ UNCHANGED <<upVars, store, kind, grantee_id, permission, result>>

\* Get*Acl fails: error line, return (set_acl.cpp:65-71, 199-205)
GetFails(p) ==
    /\ pc[p] = "get"
    /\ calls' = [calls EXCEPT ![p] = Append(@, [op |-> GetOp(kind[p]), ok |-> FALSE])]
    /\ out' = [out EXCEPT ![p] = Append(@, "Original " \o GetOp(kind[p]) \o " error")]
    /\ pc' = [pc EXCEPT ![p] = "returned"]
    /\ UNCHANGED <<upVars, store, kind, grantee_id, permission, result, acp>>

\* Mutant of PutSucceeds: the new grant is added to the policy the store
\* holds at the time of the put, not to the fetched one
PutSucceedsMerging(p) ==
    /\ pc[p] = "put"
    /\ calls' = [calls EXCEPT ![p] = Append(@, [op |-> PutOp(kind[p]), ok |-> TRUE])]
    /\ store' = [store EXCEPT ![Target(p)] =
                    IF kind[p] = "bucket"
                    THEN BucketAcp(store[Target(p)], grantee_id[p], permission[p])
                    ELSE ObjectAcp(store[Target(p)], grantee_id[p], permission[p])]
    /\ pc' = [pc EXCEPT ![p] = IF kind[p] = "bucket" THEN "verify" ELSE "returned"]
    /\ UNCHANGED <<upVars, kind, grantee_id, permission, result, acp, out>>

\* Put*Acl succeeds: the store replaces the target's policy by the request's
\* (set_acl.cpp:127-135, 262-271)
PutSucceeds(p) ==
    /\ pc[p] = "put"
    /\ calls' = [calls EXCEPT ![p] = Append(@, [op |-> PutOp(kind[p]), ok |-> TRUE])]
    /\ store' = [store EXCEPT ![Target(p)] = acp[p]]
    /\ pc' = [pc EXCEPT ![p] = IF kind[p] = "bucket" THEN "verify" ELSE "returned"]
    /\ UNCHANGED <<upVars, kind, grantee_id, permission, result, acp, out>>

\* Mutant of PutFails: the error line is written but the function goes on
PutFailsContinues(p) ==
    /\ pc[p] = "put"
    /\ calls' = [calls EXCEPT ![p] = Append(@, [op |-> PutOp(kind[p]), ok |-> FALSE])]
    /\ out' = [out EXCEPT ![p] = Append(@, PutOp(kind[p]) \o " error")]
    /\ pc' = [pc EXCEPT ![p] = IF kind[p] = "bucket" THEN "verify" ELSE "returned"]
    /\ UNCHANGED <<upVars, store, kind, grantee_id, permission, result, acp>>

\* Put*Acl fails: error line, return (set_acl.cpp:129-135, 264-270)
PutFails(p) ==
    /\ pc[p] = "put"
    /\ calls' = [calls EXCEPT ![p] = Append(@, [op |-> PutOp(kind[p]), ok |-> FALSE])]
    /\ out' = [out EXCEPT ![p] = Append(@, PutOp(kind[p]) \o " error")]
    /\ pc' = [pc EXCEPT ![p] = "returned"]
    /\ UNCHANGED <<upVars, store, kind, grantee_id, permission, result, acp>>

\* The lines printed for the re-fetched grants (set_acl.cpp:149-182)
RECURSIVE GrantLines(_)
GrantLines(grants) ==
    IF grants = << >> THEN << >>
    ELSE << <<"Grantee Display Name", Head(grants).grantee.displayName>>,
            <<"Permission", PermissionLine(Head(grants).permission)>> >>
         \o GrantLines(Tail(grants))

\* Bucket path: the verifying GetBucketAcl succeeds (set_acl.cpp:138-182)
VerifySucceeds(p) ==
    /\ pc[p] = "verify"
    /\ calls' = [calls EXCEPT ![p] = Append(@, [op |-> GetOp(kind[p]), ok |-> TRUE])]
    /\ result' = [result EXCEPT ![p] = store[Target(p)]]
    /\ out' = [out EXCEPT ![p] =
                 @ \o <<"Updated Bucket ACL:">> \o GrantLines(store[Target(p)].grants)]
    /\ pc' = [pc EXCEPT ![p] = "returned"]
    /\ UNCHANGED <<upVars, store, kind, grantee_id, permission, acp>>

\* Mutant of VerifyFails: a failed verification writes the fetched policy back
VerifyFailsRollsBack(p) ==
    /\ pc[p] = "verify"
    /\ calls' = [calls EXCEPT ![p] = Append(@, [op |-> GetOp(kind[p]), ok |-> FALSE])]
    /\ out' = [out EXCEPT ![p] = Append(@, "Updated " \o GetOp(kind[p]) \o " error")]
    /\ store' = [store EXCEPT ![Target(p)] = result[p]]
    /\ pc' = [pc EXCEPT ![p] = "returned"]
    /\ UNCHANGED <<upVars, kind, grantee_id, permission, result, acp>>

\* Bucket path: the verifying GetBucketAcl fails (set_acl.cpp:139-145)
VerifyFails(p) ==
    /\ pc[p] = "verify"
    /\ calls' = [calls EXCEPT ![p] = Append(@, [op |-> GetOp(kind[p]), ok |-> FALSE])]
    /\ out' = [out EXCEPT ![p] = Append(@, "Updated " \o GetOp(kind[p]) \o " error")]
    /\ pc' = [pc EXCEPT ![p] = "returned"]
    /\ UNCHANGED <<upVars, store, kind, grantee_id, permission, result, acp>>

\* What the caller gets back: both functions return void (set_acl.cpp:53, 185)
ReturnValue(p) == IF pc[p] = "returned" THEN "void" ELSE Unset

Next ==
    \E p \in Invocations :
       \/ \E k \in Kinds, gid \in GranteeIds, perm \in RacePermissionNames :
             Call(p, k, gid, perm)
       \/ GetSucceeds(p)
       \/ GetFails(p)
       \/ PutSucceeds(p)
       \/ PutFails(p)
       \/ VerifySucceeds(p)
       \/ VerifyFails(p)

Spec == Init /\ [][Next]_vars

\* A single invocation, with every permission argument
OneNext ==
    \/ \E k \in Kinds, gid \in GranteeIds, perm \in PermissionNames :
          Call(1, k, gid, perm)
    \/ GetSucceeds(1)
    \/ GetFails(1)
    \/ PutSucceeds(1)
    \/ PutFails(1)
    \/ VerifySucceeds(1)
    \/ VerifyFails(1)

OneSpec == Init /\ [][OneNext]_vars

---------------------------------------------------------------------------
\* put_object_async.cpp: the main thread and the thread of the client that
\* runs the completion callback.

ObjectNames == {"k1", "k2"}
BucketName == "bucket-name-scalwas"
Outcomes == {"Success", "Failure"}

\* Values of the set_acl variables while the upload program runs
AclIdle ==
    /\ store = [t \in Kinds |-> NoPolicy]
    /\ pc = [p \in Invocations |-> "off"]
    /\ kind = [p \in Invocations |-> "bucket"]
    /\ grantee_id = [p \in Invocations |-> Unset]
    /\ permission = [p \in Invocations |-> Unset]
    /\ result = [p \in Invocations |-> NoPolicy]
    /\ acp = [p \in Invocations |-> NoPolicy]
    /\ calls = [p \in Invocations |-> << >>]
    /\ out = [p \in Invocations |-> << >>]

UploadInit ==
    /\ AclIdle
    /\ main_pc = "m142" /\ cb_pc = "idle"
    /\ upload_mutex = "free"
    /\ upload_finished = FALSE              \* line 57
    /\ notified = FALSE
    /\ file_present \in BOOLEAN
    /\ object_name \in ObjectNames
    /\ uuid = Unset
    /\ submitted = << >>
    /\ outcome = Unset
    /\ put_ret = FALSE                      \* nothing returned yet
    /\ s3_client = "none"
    /\ flag_writes = 0 /\ notifies = 0
    /\ console = << >>

\* Mutant of MainLock: main goes on without acquiring upload_mutex
MainLockSkipped ==
    /\ main_pc = "m142"
    /\ main_pc' = "m143"
    /\ UNCHANGED <<aclVars, cb_pc, upload_mutex, upload_finished, notified,
                   file_present, object_name, uuid, submitted, outcome, put_ret,
                   s3_client, flag_writes, notifies, console>>

\* std::unique_lock<std::mutex> lock(upload_mutex)  (line 142)
MainLock ==
    /\ main_pc = "m142" /\ upload_mutex = "free"
    /\ upload_mutex' = "main"
    /\ main_pc' = "m143"
    /\ UNCHANGED <<aclVars, cb_pc, upload_finished, notified, file_present, object_name,
                   uuid, submitted, outcome, put_ret, s3_client, flag_writes,
                   notifies, console>>

\* upload_finished = false  (line 143)
MainReset ==
    /\ main_pc = "m143"
    /\ upload_finished' = FALSE
    /\ main_pc' = "m144"
    /\ UNCHANGED <<aclVars, cb_pc, upload_mutex, notified, file_present, object_name,
                   uuid, submitted, outcome, put_ret, s3_client, flag_writes,
                   notifies, console>>



\* std::endl as written to std::cout
Endl == "\n"

\* put_s3_object_async, file missing: the text of the error line (lines 92-93)
PutNoSuchFile ==
    /\ main_pc = "m144" /\ ~file_present
    /\ console' = Append(console, "ERROR: NoSuchFile: The specified file does not exist")
    /\ main_pc' = "p94"
    /\ UNCHANGED <<aclVars, cb_pc, upload_mutex, upload_finished, notified, file_present,
                   object_name, uuid, submitted, outcome, put_ret, s3_client,
                   flag_writes, notifies>>

\* << std::endl  (line 94)
PutNoSuchFileEndl ==
    /\ main_pc = "p94"
    /\ console' = Append(console, Endl)
    /\ main_pc' = "p95"
    /\ UNCHANGED <<aclVars, cb_pc, upload_mutex, upload_finished, notified, file_present,
                   object_name, uuid, submitted, outcome, put_ret, s3_client,
                   flag_writes, notifies>>

\* Mutant of PutNoSuchFileReturn: true is returned after the error line
PutNoSuchFileReturnsTrue ==
    /\ main_pc = "p95"
    /\ put_ret' = TRUE
    /\ main_pc' = "m144_ret"
    /\ UNCHANGED <<aclVars, cb_pc, upload_mutex, upload_finished, notified,
                   file_present, object_name, uuid, submitted, outcome, s3_client,
                   flag_writes, notifies, console>>

\* return false  (line 95)
PutNoSuchFileReturn ==
    /\ main_pc = "p95"
    /\ put_ret' = FALSE
    /\ main_pc' = "m144_ret"
    /\ UNCHANGED <<aclVars, cb_pc, upload_mutex, upload_finished, notified, file_present,
                   object_name, uuid, submitted, outcome, s3_client, flag_writes,
                   notifies, console>>

\* put_s3_object_async, file present: client, request, context (lines 98-116)
PutSetUp ==
    /\ main_pc = "m144" /\ file_present
    /\ s3_client' = "alive"
    /\ uuid' = object_name                                     \* line 116
    /\ main_pc' = "p119"
    /\ UNCHANGED <<aclVars, cb_pc, upload_mutex, upload_finished, notified, file_present,
                   object_name, submitted, outcome, put_ret, flag_writes,
                   notifies, console>>

\* s3_client.PutObjectAsync(object_request, handler, context)  (lines 119-121)
PutSubmit ==
    /\ main_pc = "p119"
    /\ submitted' = Append(submitted,
                       [bucket |-> BucketName, key |-> object_name, uuid |-> uuid])
    /\ main_pc' = "p122"
    /\ UNCHANGED <<aclVars, cb_pc, upload_mutex, upload_finished, notified, file_present,
                   object_name, uuid, outcome, put_ret, s3_client, flag_writes,
                   notifies, console>>

\* return true; the locals go out of scope while the call is in flight, and
\* the destructor of s3_client, code of the client library, waits for that
\* call and its handler to end before the function gets back to main
\* (lines 104, 122-124)
PutReturnWaits ==
    /\ main_pc = "p122"
    /\ s3_client' = "destroying"
    /\ main_pc' = "p124_wait"
    /\ UNCHANGED <<aclVars, cb_pc, upload_mutex, upload_finished, notified, file_present,
                   object_name, uuid, submitted, outcome, put_ret, flag_writes,
                   notifies, console>>

\* return true; the locals go out of scope: either the destructor of
\* s3_client does not wait for the call in flight, or what it waited for,
\* the handler's return, has happened  (lines 122-124)
PutReturn ==
    /\ main_pc \in {"p122", "p124_wait"}
    /\ main_pc = "p124_wait" => cb_pc = "done"
    /\ put_ret' = TRUE
    /\ s3_client' = "destroyed"
    /\ main_pc' = "m144_ret"
    /\ UNCHANGED <<aclVars, cb_pc, upload_mutex, upload_finished, notified, file_present,
                   object_name, uuid, submitted, outcome, flag_writes, notifies,
                   console>>

\* if (put_s3_object_async(...)) taken: std::cout << "Waiting ..."  (lines 144-146)
MainWaiting ==
    /\ main_pc = "m144_ret" /\ put_ret = TRUE
    /\ console' = Append(console, "Waiting for file upload to complete...")
    /\ main_pc' = "m146_endl"
    /\ UNCHANGED <<aclVars, cb_pc, upload_mutex, upload_finished, notified, file_present,
                   object_name, uuid, submitted, outcome, put_ret, s3_client,
                   flag_writes, notifies>>

\* << std::endl, a write of its own: the handler's writes can come before it
\* (line 146)
MainWaitingEndl ==
    /\ main_pc = "m146_endl"
    /\ console' = Append(console, Endl)
    /\ main_pc' = "m147"
    /\ UNCHANGED <<aclVars, cb_pc, upload_mutex, upload_finished, notified, file_present,
                   object_name, uuid, submitted, outcome, put_ret, s3_client,
                   flag_writes, notifies>>

\* if (put_s3_object_async(...)) not taken  (lines 144, 157)
MainSkip ==
    /\ main_pc = "m144_ret" /\ put_ret = FALSE
    /\ main_pc' = "m158"
    /\ UNCHANGED <<aclVars, cb_pc, upload_mutex, upload_finished, notified, file_present,
                   object_name, uuid, submitted, outcome, put_ret, s3_client,
                   flag_writes, notifies, console>>

\* Mutant of WaitPredicate: the predicate tests the flag the wrong way round
WaitPredicateNegated == ~upload_finished

\* The predicate of the wait: []{return upload_finished;}  (line 147)
WaitPredicate == upload_finished

\* upload_variable.wait(lock, pred): while (!pred()) wait(lock);
\* the predicate holds, the wait returns  (line 147)
WaitReturn ==
    /\ main_pc = "m147" /\ WaitPredicate
    /\ main_pc' = "m155"
    /\ UNCHANGED <<aclVars, cb_pc, upload_mutex, upload_finished, notified, file_present,
                   object_name, uuid, submitted, outcome, put_ret, s3_client,
                   flag_writes, notifies, console>>

\* the predicate fails: wait(lock) releases the mutex and blocks  (line 147)
WaitBlock ==
    /\ main_pc = "m147" /\ ~WaitPredicate
    /\ upload_mutex' = "free"
    /\ notified' = FALSE
    /\ main_pc' = "m147_blocked"
    /\ UNCHANGED <<aclVars, cb_pc, upload_finished, file_present, object_name, uuid,
                   submitted, outcome, put_ret, s3_client, flag_writes, notifies,
                   console>>

\* the blocked waiter is woken by notify_one  (line 147)
WaitNotified ==
    /\ main_pc = "m147_blocked" /\ notified
    /\ main_pc' = "m147_relock"
    /\ UNCHANGED <<aclVars, cb_pc, upload_mutex, upload_finished, notified, file_present,
                   object_name, uuid, submitted, outcome, put_ret, s3_client,
                   flag_writes, notifies, console>>

\* the blocked waiter wakes spuriously  (line 147)
WaitSpurious ==
    /\ main_pc = "m147_blocked" /\ ~notified
    /\ main_pc' = "m147_relock"
    /\ UNCHANGED <<aclVars, cb_pc, upload_mutex, upload_finished, notified, file_present,
                   object_name, uuid, submitted, outcome, put_ret, s3_client,
                   flag_writes, notifies, console>>

\* wait(lock) reacquires the mutex before it returns to the loop  (line 147)
WaitRelock ==
    /\ main_pc = "m147_relock" /\ upload_mutex = "free"
    /\ upload_mutex' = "main"
    /\ main_pc' = "m147"
    /\ UNCHANGED <<aclVars, cb_pc, upload_finished, notified, file_present, object_name,
                   uuid, submitted, outcome, put_ret, s3_client, flag_writes,
                   notifies, console>>

\* std::cout << "File upload completed"  (line 155)
MainCompleted ==
    /\ main_pc = "m155"
    /\ console' = Append(console, "File upload completed")
    /\ main_pc' = "m155_endl"
    /\ UNCHANGED <<aclVars, cb_pc, upload_mutex, upload_finished, notified, file_present,
                   object_name, uuid, submitted, outcome, put_ret, s3_client,
                   flag_writes, notifies>>

\* << std::endl  (line 155)
MainCompletedEndl ==
    /\ main_pc = "m155_endl"
    /\ console' = Append(console, Endl)
    /\ main_pc' = "m158"
    /\ UNCHANGED <<aclVars, cb_pc, upload_mutex, upload_finished, notified, file_present,
                   object_name, uuid, submitted, outcome, put_ret, s3_client,
                   flag_writes, notifies>>

\* end of the block: lock's destructor releases the mutex  (line 158)
MainExit ==
    /\ main_pc = "m158"
    /\ upload_mutex' = "free"
    /\ main_pc' = "m159"
    /\ UNCHANGED <<aclVars, cb_pc, upload_finished, notified, file_present, object_name,
                   uuid, submitted, outcome, put_ret, s3_client, flag_writes,
                   notifies, console>>

\* Aws::ShutdownAPI(options)  (line 159)
MainShutdown ==
    /\ main_pc = "m159"
    /\ main_pc' = "m160"
    /\ UNCHANGED <<aclVars, cb_pc, upload_mutex, upload_finished, notified, file_present,
                   object_name, uuid, submitted, outcome, put_ret, s3_client,
                   flag_writes, notifies, console>>

\* main returns: exit() starts, the process and the handler's thread are
\* still running  (line 160)
MainReturn ==
    /\ main_pc = "m160"
    /\ main_pc' = "done"
    /\ UNCHANGED <<aclVars, cb_pc, upload_mutex, upload_finished, notified, file_present,
                   object_name, uuid, submitted, outcome, put_ret, s3_client,
                   flag_writes, notifies, console>>

\* exit() is through: the process ends, with it the handler's thread wherever
\* it stands  (after line 160)
ProcessExit ==
    /\ main_pc = "done"
    /\ main_pc' = "exited"
    /\ UNCHANGED <<aclVars, cb_pc, upload_mutex, upload_finished, notified, file_present,
                   object_name, uuid, submitted, outcome, put_ret, s3_client,
                   flag_writes, notifies, console>>

\* The process is alive: exit() is not through
ProcessRuns == main_pc # "exited"

\* The client calls the handler it was given, once, with the outcome of the
\* request, on a thread of its own  (lines 59-63, 119-121)
Deliver(o) ==
    /\ cb_pc = "idle" /\ submitted # << >>
    /\ ProcessRuns
    /\ outcome' = o
    /\ cb_pc' = "c65"
    /\ UNCHANGED <<aclVars, main_pc, upload_mutex, upload_finished, notified, file_present,
                   object_name, uuid, submitted, put_ret, s3_client, flag_writes,
                   notifies, console>>

\* The writes of the status line, one per operator<<: line 66 on success,
\* lines 70-71 on failure (exception name and message of the outcome's error)
StatusWrites ==
    IF outcome = "Success"
    THEN <<"Finished uploading ", uuid, Endl>>
    ELSE <<"ERROR: ", "exception", ": ", "message", Endl>>

\* The handler's positions inside the status line, by writes already made
StatusPcs == <<"c65", "c65_1", "c65_2", "c65_3", "c65_4">>
StatusPos == CHOOSE k \in 1..Len(StatusPcs) : StatusPcs[k] = cb_pc

\* Output operation status: the next write of the line, made without the
\* mutex, so that main's writes can fall between two of them  (lines 65-72)
CbStatus ==
    /\ cb_pc \in {StatusPcs[k] : k \in 1..Len(StatusPcs)}
    /\ ProcessRuns
    /\ console' = Append(console, StatusWrites[StatusPos])
    /\ cb_pc' = IF StatusPos = Len(StatusWrites) THEN "c75"
                ELSE StatusPcs[StatusPos + 1]
    /\ UNCHANGED <<aclVars, main_pc, upload_mutex, upload_finished, notified, file_present,
                   object_name, uuid, submitted, outcome, put_ret, s3_client,
                   flag_writes, notifies>>

\* Mutant of CbLock: the handler goes on without taking the mutex
CbLockSkipped ==
    /\ cb_pc = "c75"
    /\ ProcessRuns
    /\ cb_pc' = "c76"
    /\ UNCHANGED <<aclVars, main_pc, upload_mutex, upload_finished, notified,
                   file_present, object_name, uuid, submitted, outcome, put_ret,
                   s3_client, flag_writes, notifies, console>>

\* std::unique_lock<std::mutex> lock(upload_mutex)  (line 75)
CbLock ==
    /\ cb_pc = "c75" /\ upload_mutex = "free"
    /\ ProcessRuns
    /\ upload_mutex' = "cb"
    /\ cb_pc' = "c76"
    /\ UNCHANGED <<aclVars, main_pc, upload_finished, notified, file_present, object_name,
                   uuid, submitted, outcome, put_ret, s3_client, flag_writes,
                   notifies, console>>

\* upload_finished = true  (line 76)
CbSet ==
    /\ cb_pc = "c76"
    /\ ProcessRuns
    /\ upload_finished' = TRUE
    /\ flag_writes' = flag_writes + 1
    /\ cb_pc' = "c77"
    /\ UNCHANGED <<aclVars, main_pc, upload_mutex, notified, file_present, object_name,
                   uuid, submitted, outcome, put_ret, s3_client, notifies, console>>

\* lock.unlock()  (line 77)
CbUnlock ==
    /\ cb_pc = "c77"
    /\ ProcessRuns
    /\ upload_mutex' = "free"
    /\ cb_pc' = "c78"
    /\ UNCHANGED <<aclVars, main_pc, upload_finished, notified, file_present, object_name,
                   uuid, submitted, outcome, put_ret, s3_client, flag_writes,
                   notifies, console>>

\* upload_variable.notify_one(): wakes the waiter if one is blocked  (line 78)
CbNotify ==
    /\ cb_pc = "c78"
    /\ ProcessRuns
    /\ notified' = IF main_pc = "m147_blocked" THEN TRUE ELSE notified
    /\ notifies' = notifies + 1
    /\ cb_pc' = "done"
    /\ UNCHANGED <<aclVars, main_pc, upload_mutex, upload_finished, file_present,
                   object_name, uuid, submitted, outcome, put_ret, s3_client,
                   flag_writes, console>>

MainStep ==
    \/ MainLock \/ MainReset \/ PutNoSuchFile \/ PutNoSuchFileEndl
    \/ PutNoSuchFileReturn \/ PutSetUp \/ PutSubmit \/ PutReturnWaits \/ PutReturn
    \/ MainWaiting \/ MainWaitingEndl \/ MainSkip \/ WaitReturn \/ WaitBlock
    \/ WaitNotified \/ MainCompleted \/ MainCompletedEndl \/ MainExit
    \/ MainShutdown \/ MainReturn \/ ProcessExit

CbStep == CbStatus \/ CbSet \/ CbUnlock \/ CbNotify

UploadNext ==
    \/ MainStep
    \/ WaitSpurious
    \/ WaitRelock
    \/ \E o \in Outcomes : Deliver(o)
    \/ CbStep
    \/ CbLock

UploadSpec == UploadInit /\ [][UploadNext]_vars

\* Either program of the repository
RepoInit == Init \/ UploadInit
RepoNext == Next \/ UploadNext
RepoSpec == RepoInit /\ [][RepoNext]_vars

---------------------------------------------------------------------------
\* Properties of the upload program

WaitReturned ==
    /\ main_pc \in {"m155", "m155_endl", "m158", "m159", "m160", "done", "exited"}
    /\ put_ret = TRUE
InWait == main_pc \in {"m147", "m147_blocked", "m147_relock"}

\* C1: for the one submitted request the handler writes upload_finished = true
\* exactly once (never twice, and once when it has run to its end), and main
\* is past the wait, or has printed "File upload completed", only in states
\* where upload_finished is true.
C1_FlagOnceWaitSound ==
    /\ flag_writes <= 1
    /\ (cb_pc \in {"c77", "c78", "done"} => flag_writes = 1)
    /\ (upload_finished => flag_writes = 1)
    /\ (WaitReturned => upload_finished)
    /\ (\E i \in 1..Len(console) : console[i] = "File upload completed")
          => upload_finished

\* C1 witness: the wait has returned after the handler's single write
C1_Witness ==
    main_pc = "m155" /\ upload_finished /\ flag_writes = 1 /\ Len(submitted) = 1

C7_NoSuchFile ==
    ~file_present /\ main_pc # "off" =>
        /\ submitted = << >>
        /\ s3_client = "none"
        /\ cb_pc = "idle" /\ flag_writes = 0 /\ notifies = 0
        /\ ~InWait /\ main_pc \notin {"m146_endl", "m155", "m155_endl"}
        /\ put_ret = FALSE
        /\ (main_pc \in {"p95", "m144_ret", "m158", "m159", "m160", "done", "exited"} =>
               console = <<"ERROR: NoSuchFile: The specified file does not exist", Endl>>)
        /\ (main_pc \in {"m142", "m143", "m144"} => console = << >>)
        /\ (main_pc # "exited" => ENABLED MainStep)

\* C7 witness: the program has ended after the failed call
C7_Witness == ~file_present /\ main_pc = "exited" /\ put_ret = FALSE

---------------------------------------------------------------------------
\* Properties of SetAclForBucket / SetAclForObject

Last(seq) == seq[Len(seq)]
Front(seq) == SubSeq(seq, 1, Len(seq) - 1)
Range(seq) == {seq[i] : i \in 1..Len(seq)}

\* The first Get*Acl of invocation p has been answered with success / error
Fetched(p) == Len(calls[p]) >= 1 /\ calls[p][1].ok
FetchFailed(p) == Len(calls[p]) >= 1 /\ ~calls[p][1].ok
\* The Put*Acl of invocation p has been answered with success / error
PutDone(p) == Len(calls[p]) >= 2 /\ calls[p][2].ok
PutFailed(p) == Len(calls[p]) >= 2 /\ ~calls[p][2].ok
\* Right after the put: result[p] is still the policy of the first fetch
JustPut(p) == Len(calls[p]) = 2 /\ calls[p][2].ok
AnyFailed(p) == \E i \in 1..Len(calls[p]) : ~calls[p][i].ok

\* C3: when the put of an invocation has succeeded, the policy it submitted
\* has one grant more than the fetched policy; grant i carries the permission,
\* grantee id and display name of fetched grant i with type CanonicalUser, in
\* the same order; the last grant is {grantee {id: grantee_id, type:
\* CanonicalUser, nothing else set}, permission: GetPermission(permission)}.
C3_NormalizeAndAppend ==
    \A p \in Invocations : JustPut(p) =>
        LET old == result[p].grants
            new == acp[p].grants
            N   == Len(old)
        IN  /\ Len(new) = N + 1
            /\ \A i \in 1..N :
                  /\ new[i].permission = old[i].permission
                  /\ new[i].grantee.id = old[i].grantee.id
                  /\ new[i].grantee.displayName = old[i].grantee.displayName
                  /\ new[i].grantee.type = Type_CanonicalUser
            /\ new[N + 1] =
                  [grantee |-> [id |-> grantee_id[p], displayName |-> Unset,
                                emailAddress |-> Unset, uri |-> Unset,
                                type |-> Type_CanonicalUser],
                   permission |-> GetPermission(permission[p])]

\* C3 witness: a successful put over a fetched policy of two grants, the first
\* a canonical user and the second not
C3_Witness ==
    \E p \in Invocations :
        /\ JustPut(p)
        /\ Len(result[p].grants) = 2
        /\ result[p].grants[1].grantee.type = Type_CanonicalUser
        /\ result[p].grants[2].grantee.type # Type_CanonicalUser

\* C4: an invocation whose first fetch failed has issued that one request
\* only (no put) and has returned, and the step in which the fetch fails
\* leaves the stored policies as they were.
C4_FetchFailureWritesNothing ==
    /\ [](\A p \in Invocations : FetchFailed(p) =>
             Len(calls[p]) = 1 /\ pc[p] = "returned")
    /\ [][\A p \in Invocations :
             (~FetchFailed(p) /\ FetchFailed(p)') => store' = store]_vars

\* C4 witness: an invocation has returned after its failed fetch while the
\* other one has written
C4_Witness ==
    \E p, q \in Invocations :
        /\ FetchFailed(p) /\ pc[p] = "returned"
        /\ q # p /\ kind[q] = kind[p] /\ PutDone(q)

\* C5: an invocation whose put failed has issued the fetch and that one put
\* only (no second put, no verifying fetch) and has returned after the error
\* line, and the step in which the put fails leaves the stored policies as
\* they were, so that nothing of the new grant sequence is stored.
C5_PutFailureWritesNothing ==
    /\ [](\A p \in Invocations : PutFailed(p) =>
             /\ Len(calls[p]) = 2 /\ pc[p] = "returned"
             /\ Last(out[p]) = PutOp(kind[p]) \o " error")
    /\ [][\A p \in Invocations :
             (~PutFailed(p) /\ PutFailed(p)') => store' = store]_vars

\* C5 witness: a bucket invocation has returned after its failed put and the
\* stored policy is still the fetched one
C5_Witness ==
    \E p \in Invocations :
        /\ PutFailed(p) /\ pc[p] = "returned" /\ kind[p] = "bucket"
        /\ store[Target(p)] = result[p]
        /\ store[Target(p)] # acp[p]

\* Every successful put on target t was made by p or by q
OnlyWriters(t, p, q) ==
    \A r \in Invocations \ {p, q} : ~(kind[r] = t /\ PutDone(r))

\* C6: two invocations on the same target that built their policies from the
\* same fetched grants and both put with success leave the policy of one of
\* them in the store: it has one grant more than was fetched, not two, and
\* when their new grants differ it does not hold both.
C6_LostUpdate ==
    \A p, q \in Invocations :
        ( /\ p # q /\ kind[p] = kind[q]
          /\ PutDone(p) /\ PutDone(q)
          /\ Front(acp[p].grants) = Front(acp[q].grants)
          /\ OnlyWriters(kind[p], p, q) )
        => /\ store[kind[p]] \in {acp[p], acp[q]}
           /\ Len(store[kind[p]].grants) = Len(Front(acp[p].grants)) + 1
           /\ (Last(acp[p].grants) # Last(acp[q].grants) =>
                 ~({Last(acp[p].grants), Last(acp[q].grants)}
                      \subseteq Range(store[kind[p]].grants)))

\* C6 witness: both invocations have returned without any error, and the
\* store holds the second writer's grant and not the first writer's
C6_Witness ==
    \E p, q \in Invocations :
        /\ p # q /\ kind[p] = kind[q]
        /\ pc[p] = "returned" /\ pc[q] = "returned"
        /\ PutDone(p) /\ PutDone(q)
        /\ ~AnyFailed(p) /\ ~AnyFailed(q)
        /\ grantee_id[p] # grantee_id[q]
        /\ store[kind[p]] = acp[q]
        /\ Last(acp[p].grants) \notin Range(store[kind[p]].grants)

\* C8: a failed invocation gives its caller a result that differs
\* from the result of a successful one, and an upload whose outcome was a
\* failure gives a result that differs from the result of a successful upload
\* (put_s3_object_async returning true).
C8_FailureIndicator ==
    /\ \A p, q \in Invocations :
          ( /\ pc[p] = "returned" /\ pc[q] = "returned"
            /\ AnyFailed(p) /\ ~AnyFailed(q) )
          => ReturnValue(p) # ReturnValue(q)
    /\ (outcome = "Failure" /\ main_pc \in {"done", "exited"}) => put_ret # TRUE

\* The mapping as the specification gives it
ExpectedPermission(name) ==
    CASE name = "FULL_CONTROL" -> Permission_FULL_CONTROL
      [] name = "WRITE"        -> Permission_WRITE
      [] name = "READ"         -> Permission_READ
      [] name = "WRITE_ACP"    -> Permission_WRITE_ACP
      [] name = "READ_ACP"     -> Permission_READ_ACP
      [] OTHER                 -> Permission_NOT_SET

\* C9: the permission of the grant an invocation adds is the enum value
\* named like its permission argument when that is one of the five known
\* names (the name the print switch gives back is the argument), and NOT_SET
\* for every other argument, the empty string and "read" included.
C9_PermissionMapping ==
    \A p \in Invocations : Fetched(p) =>
        LET mapped == Last(acp[p].grants).permission
        IN  /\ mapped = ExpectedPermission(permission[p])
            /\ (permission[p] \in KnownPermissionNames =>
                   PermissionLine(mapped) = permission[p])
            /\ (permission[p] \notin KnownPermissionNames =>
                   mapped = Permission_NOT_SET)

\* C9 witness: an argument that differs from a known name in case only
C9_Witness ==
    \E p \in Invocations :
        /\ Fetched(p) /\ permission[p] = "read"
        /\ Last(acp[p].grants).permission = Permission_NOT_SET

---------------------------------------------------------------------------
\* Ordering, lifetime and frame properties

\* C11 as stated: the signal precedes the wake that lets the waiter return,
\* so main is past the wait only after notify_one has been called.
C11_SignalBeforeWake == WaitReturned => notifies = 1

\* C11 amended: the handler writes the flag only while it holds the mutex and
\* calls notify_one only after that write and after it has released the
\* mutex; the waiter tests the flag only while it holds the mutex again, and
\* leaves the wait only after the write.  A wake caused by notify_one follows
\* the signal, but the wake that ends the wait may be a spurious one that
\* comes before it.
C11_HandshakeOrder ==
    /\ [][flag_writes' # flag_writes =>
             upload_mutex = "cb" /\ upload_mutex' = "cb"]_vars
    /\ [][notifies' # notifies =>
             flag_writes = 1 /\ upload_finished /\ upload_mutex # "cb"]_vars
    /\ [](main_pc = "m147" => upload_mutex = "main")
    /\ [][(main_pc = "m147" /\ main_pc' = "m155") =>
             upload_mutex = "main" /\ flag_writes = 1]_vars
    /\ [](notified => notifies = 1)
    /\ [](WaitReturned => flag_writes = 1)

\* C11 witness: main has left the wait while the handler has released the
\* mutex and not yet called notify_one
C11_Witness == main_pc = "m155" /\ cb_pc = "c78" /\ notifies = 0

\* The call is in flight: submitted, and the handler has not yet been called
InFlight == submitted # << >> /\ cb_pc = "idle"

\* C12: while the call is in flight the client that carries it (and with it
\* the request and its payload stream, locals of the same scope) has not been
\* destroyed.
C12_ClientOutlivesCall == InFlight => s3_client = "alive"

\* C13: the policy an invocation puts has the owner of the policy it fetched,
\* and whatever invocations have succeeded or failed, every target's stored
\* policy has the owner it had before any of them.
C13_OwnerUnchanged ==
    /\ \A p \in Invocations : Fetched(p) =>
          /\ acp[p].owner = result[p].owner
          /\ acp[p].owner = OwnerOf(Target(p))
    /\ \A t \in Kinds : pc[1] # "off" => store[t].owner = OwnerOf(t)

\* C13 witness: on one target an invocation has put with success and another
\* has failed, and the stored policy is the written one
C13_Witness ==
    \E p, q \in Invocations :
        /\ p # q /\ kind[p] = kind[q]
        /\ PutDone(p) /\ pc[p] = "returned"
        /\ AnyFailed(q) /\ pc[q] = "returned"
        /\ store[kind[p]] = acp[p]
        /\ store[kind[p]].owner = OwnerOf(kind[p])

\* The lines an invocation writes when no request of it fails
NoErrorLines(p) ==
    \/ out[p] = << >>
    \/ (kind[p] = "bucket" /\ Head(out[p]) = "Updated Bucket ACL:")

\* C14: with a permission argument outside the five known names, the empty
\* string included, a successful fetch is followed by the put: the invocation
\* is at the put or has issued it, it has written no line unless a request
\* failed, the last grant of the policy it puts is {grantee_id, CanonicalUser,
\* NOT_SET}, and after a successful put that grant is the last one stored.
C14_UnknownPermissionIsPut ==
    \A p \in Invocations :
        (Fetched(p) /\ permission[p] \notin KnownPermissionNames) =>
            /\ pc[p] = "put" \/ Len(calls[p]) >= 2
            /\ (~AnyFailed(p) => NoErrorLines(p))
            /\ Last(acp[p].grants).permission = Permission_NOT_SET
            /\ Last(acp[p].grants).grantee.id = grantee_id[p]
            /\ Last(acp[p].grants).grantee.type = Type_CanonicalUser
            /\ (PutDone(p) => Last(store[Target(p)].grants) = Last(acp[p].grants))

\* C14 witness: an invocation with the empty string as permission has
\* returned without any failure and the stored policy ends with NOT_SET
C14_Witness ==
    \E p \in Invocations :
        /\ permission[p] = "" /\ pc[p] = "returned"
        /\ PutDone(p) /\ ~AnyFailed(p)
        /\ Last(store[Target(p)].grants).permission = Permission_NOT_SET
        /\ Last(store[Target(p)].grants).grantee.id = grantee_id[p]

\* The step is the successful put of invocation p
PutStep(p) ==
    /\ Len(calls[p]) = 1 /\ Len(calls'[p]) = 2 /\ calls'[p][2].ok

\* Two returned invocations with the same grantee and permission, the second
\* of which fetched what the first had put, the second's policy being stored
Successive(p, q) ==
    /\ p # q /\ kind[p] = kind[q]
    /\ grantee_id[p] = grantee_id[q] /\ permission[p] = permission[q]
    /\ PutDone(p) /\ PutDone(q)
    /\ Front(acp[q].grants) = acp[p].grants
    /\ store[kind[q]] = acp[q]

\* C15: a successful put by an invocation whose target was not written since
\* its fetch leaves the target with exactly one grant more; every grant stored
\* before is kept at its position (permission, id and display name), and the
\* last grant is the new one even when an equal grant was already stored.
\* After two such invocations in succession with the same grantee and
\* permission on a policy of N grants, the target has N+2 grants and the last
\* two are equal.
C15_AppendNeverDedups ==
    /\ [][\A p \in Invocations :
            (PutStep(p) /\ store[Target(p)] = result[p]) =>
                LET old == store[Target(p)].grants
                    new == store'[Target(p)].grants
                IN  /\ Len(new) = Len(old) + 1
                    /\ \A i \in 1..Len(old) : new[i] = UpdatedGrant(old[i])
                    /\ new[Len(new)] = AddedGrant(grantee_id[p], permission[p])]_vars
    /\ [](\A p, q \in Invocations :
            Successive(p, q) =>
                LET g == store[kind[q]].grants
                    N == Len(acp[p].grants) - 1
                IN  /\ Len(g) = N + 2
                    /\ g[N + 2] = g[N + 1]
                    /\ g[N + 2] = AddedGrant(grantee_id[q], permission[q]))

\* C15 witness: two successive invocations with the same arguments have
\* returned, the policy of two grants they started from now has four, the
\* last two equal
C15_Witness ==
    \E p, q \in Invocations :
        /\ Successive(p, q)
        /\ pc[p] = "returned" /\ pc[q] = "returned"
        /\ Len(store[kind[q]].grants) = 4
        /\ store[kind[q]].grants[3] = store[kind[q]].grants[4]

\* C16: an invocation issues at most three requests, one put at most, and a
\* third request only on the bucket path, where it is GetBucketAcl. After a
\* successful put the bucket invocation returns with exactly one re-fetch
\* issued and the object invocation with none; from the put's success on, the
\* stored policy of a target with no other writer is the policy put, also
\* when the re-fetch has failed.
C16_OnlyBucketVerifies ==
    \A p \in Invocations :
        /\ Len(calls[p]) <= 3
        /\ \A i \in 1..Len(calls[p]) : (calls[p][i].op = PutOp(kind[p])) <=> (i = 2)
        /\ Len(calls[p]) = 3 => (kind[p] = "bucket" /\ calls[p][3].op = "GetBucketAcl")
        /\ PutDone(p) =>
              /\ store[Target(p)] = acp[p]
              /\ kind[p] = "bucket" =>
                    \/ pc[p] = "verify" /\ Len(calls[p]) = 2
                    \/ pc[p] = "returned" /\ Len(calls[p]) = 3
              /\ kind[p] = "object" => (pc[p] = "returned" /\ Len(calls[p]) = 2)

\* C16 witness: the re-fetch of a bucket invocation has failed and the bucket
\* holds the policy that was put, one grant longer than the one fetched
C16_Witness ==
    \E p \in Invocations :
        /\ kind[p] = "bucket" /\ pc[p] = "returned"
        /\ PutDone(p) /\ Len(calls[p]) = 3 /\ ~calls[p][3].ok
        /\ store["bucket"] = acp[p]
        /\ Len(store["bucket"].grants) = Len(result[p].grants) + 1

\* C17: for the policy an invocation fetched and its grantee and permission
\* arguments, the policy it built is the one SetAclForBucket builds and the
\* one SetAclForObject builds: the two are equal, owner and grant sequence,
\* and the copy of the fetched grants at line 80 leaves no trace in it.
C17_SameMerge ==
    \A p \in Invocations :
        (Fetched(p) /\ Len(calls[p]) <= 2) =>
            /\ acp[p] = BucketAcp(result[p], grantee_id[p], permission[p])
            /\ acp[p] = ObjectAcp(result[p], grantee_id[p], permission[p])
            /\ (PutDone(p) /\ kind[p] = "bucket") =>
                  store["bucket"] = ObjectAcp(result[p], grantee_id[p], permission[p])
            /\ (PutDone(p) /\ kind[p] = "object") =>
                  store["object"] = BucketAcp(result[p], grantee_id[p], permission[p])

\* C17 witness: a bucket invocation that fetched two grants, one of them not
\* a canonical user, has put a policy of three grants
C17_Witness ==
    \E p \in Invocations :
        /\ kind[p] = "bucket" /\ JustPut(p)
        /\ Len(result[p].grants) = 2
        /\ \E i \in 1..2 : result[p].grants[i].grantee.type # Type_CanonicalUser
        /\ Len(store["bucket"].grants) = 3

\* Main is between the reset and its first release of the mutex in the wait
BeforeFirstRelease ==
    \/ main_pc \in {"m144", "p119", "p122", "p124_wait", "m144_ret", "m146_endl"}
    \/ main_pc = "m147" /\ flag_writes = 0

\* C18: from the reset until main first releases upload_mutex inside the
\* wait, through the submission and the return of put_s3_object_async, main
\* holds the mutex, upload_finished is false and the handler has not reached
\* its critical section. The handler holds the mutex, and writes the flag,
\* only while main is inside the wait with the mutex released. The predicate
\* of the wait is first evaluated with the flag false, and the flag is true
\* only by the handler's write, never by a value from before the reset.
C18_FlagFalseUntilWait ==
    /\ [](BeforeFirstRelease =>
            /\ ~upload_finished /\ flag_writes = 0
            /\ upload_mutex = "main"
            /\ cb_pc \in {"idle", "c75"} \cup Range(StatusPcs))
    /\ [](upload_mutex = "cb" => main_pc \in {"m147_blocked", "m147_relock"})
    /\ [][flag_writes' # flag_writes =>
             main_pc \in {"m147_blocked", "m147_relock"} /\ put_ret = TRUE]_vars
    /\ [][(main_pc = "m146_endl" /\ main_pc' = "m147") => ~WaitPredicate']_vars
    /\ [](upload_finished => flag_writes = 1)

\* C18 witness: the request is submitted and its outcome delivered, the
\* handler stands before its lock while main, back from put_s3_object_async,
\* has not yet entered the wait
C18_Witness ==
    /\ main_pc = "m144_ret" /\ put_ret = TRUE
    /\ cb_pc = "c75"
    /\ upload_mutex = "main" /\ ~upload_finished

\* Some invocation has put the policy of target t with success
Written(t) == \E p \in Invocations : kind[p] = t /\ PutDone(p)

AllCanonical(grants) ==
    \A i \in 1..Len(grants) : grants[i].grantee.type = Type_CanonicalUser

\* C19: once a put on a target has succeeded, every grant of the target's
\* stored policy has grantee type CanonicalUser, in every later state,
\* whatever the other invocations on the target do or fail to do; a step
\* never brings a Group or AmazonCustomerByEmail type back into a policy in
\* which all types are CanonicalUser.
C19_CanonicalForever ==
    /\ [](\A t \in Kinds : Written(t) => AllCanonical(store[t].grants))
    /\ [][\A t \in Kinds :
            AllCanonical(store[t].grants) => AllCanonical(store'[t].grants)]_vars

\* C19 witness: two invocations on a target whose first fetched policy held a
\* grantee that was not a canonical user have ended, one with a stored put and
\* one with a failure, and every stored grant is of type CanonicalUser
C19_Witness ==
    \E p, q \in Invocations :
        /\ p # q /\ kind[p] = kind[q]
        /\ pc[p] = "returned" /\ pc[q] = "returned"
        /\ JustPut(p) /\ AnyFailed(q)
        /\ \E i \in 1..Len(result[p].grants) :
              result[p].grants[i].grantee.type # Type_CanonicalUser
        /\ AllCanonical(store[kind[p]].grants)

=============================================================================
